---- MODULE Spec2Model ----
(***************************************************************************)
(* x402 pay-per-request gate on Rootstock.                                 *)
(*                                                                         *)
(* The model covers the PayPerAPI ledger contract                          *)
(* (contracts/src/PayPerAPI.sol), the payment verifier and the x402        *)
(* middleware (backend/src/middleware/x402Payment.js), the declarative     *)
(* route gate (backend/src/middleware/x402PaymentConfig.js) and the route  *)
(* table of the server (backend/src/server.js).                            *)
(***************************************************************************)
EXTENDS Integers, Sequences, FiniteSets, TLC

(***************************************************************************)
(* Amounts of wei.  A uint256 / BigInt quantity v is held as the pair      *)
(* <<hi, lo>> with v = hi * Base + lo and 0 <= lo < Base, so that values   *)
(* beyond 2^53 (where Number() stops being exact) stay representable with  *)
(* machine integers.  A pair with hi < 0 stands for a value below zero,    *)
(* which a uint256 cannot hold (it would have wrapped).                    *)
(***************************************************************************)
Base == 2^27

Norm(h, l) == <<h + (l \div Base), l % Base>>

Small(n) == Norm(0, n)

Zero == Small(0)

One == Small(1)

Two == Small(2)

Add(a, b) == Norm(a[1] + b[1], a[2] + b[2])

Sub(a, b) == Norm(a[1] - b[1], a[2] - b[2])

Geq(a, b) == a[1] > b[1] \/ (a[1] = b[1] /\ a[2] >= b[2])

Gt(a, b) == Geq(a, b) /\ a # b

IsUint(a) == a[1] >= 0 /\ a[2] >= 0 /\ a[2] < Base

\* Floor division by a divisor below 16 (one limb, so that the partial
\* remainder times Base stays a machine integer).
DivSmall(a, d) == <<a[1] \div d, ((a[1] % d) * Base + a[2]) \div d>>

ModSmall(a, d) == ((a[1] % d) * Base + a[2]) % d

\* uint256 division by the price, as `/` of Solidity computes it.
Div(a, p) == DivSmall(a, p[2])

\* 2^53 + 1, the first amount Number() cannot hold.
TwoTo53 == <<2^26, 0>>

BigOdd == Add(TwoTo53, One)

MulSmall(a, m) == Norm(a[1] * m, a[2] * m)

(***************************************************************************)
(* Conversions of the verifier and of the response bodies.                 *)
(***************************************************************************)
\* The spacing of the doubles around a: 1 below 2^53, 2 below 2^54, ...
RECURSIVE Ulp(_, _)
Ulp(a, u) == IF a[1] \div u < 2^26 THEN u ELSE Ulp(a, 2 * u)

\* Number(bigint): the nearest double, ties to the even mantissa.
NumberOf(a) ==
    LET u    == Ulp(a, 1)
        rem  == a[2] % u
        down == Sub(a, Small(rem))
        up   == Add(down, Small(u))
        odd  == (a[2] \div u) % 2 = 1
    IN  IF 2 * rem < u THEN down
        ELSE IF 2 * rem > u THEN up
        ELSE IF odd THEN up ELSE down

\* BigInt.prototype.toString(): the decimal digits, most significant first.
RECURSIVE toString(_)
toString(a) ==
    IF a[1] = 0 /\ a[2] < 10 THEN <<a[2]>>
    ELSE toString(DivSmall(a, 10)) \o <<ModSmall(a, 10)>>

\* The amount a decimal string denotes (what BigInt(string) gives back).
RECURSIVE ParseDecimal(_)
ParseDecimal(s) ==
    IF s = <<>> THEN Zero
    ELSE Add(MulSmall(ParseDecimal(SubSeq(s, 1, Len(s) - 1)), 10), Small(s[Len(s)]))

RECURSIVE PadStart(_, _)
PadStart(s, n) == IF Len(s) >= n THEN s ELSE PadStart(<<0>> \o s, n)

RECURSIVE StripTrailingZeros(_)
StripTrailingZeros(s) ==
    IF s # <<>> /\ s[Len(s)] = 0 THEN StripTrailingZeros(SubSeq(s, 1, Len(s) - 1))
    ELSE s

EtherDecimals == 18

\* formatRBTC = formatEther(BigInt(wei)): the integer digits and the fraction
\* digits (18 decimals, trailing zeros dropped) of wei / 10^18.
formatRBTC(wei) ==
    LET display  == PadStart(toString(wei), EtherDecimals)
        cut      == Len(display) - EtherDecimals
        integer  == SubSeq(display, 1, cut)
        fraction == StripTrailingZeros(SubSeq(display, cut + 1, Len(display)))
    IN  [integer  |-> IF integer = <<>> THEN <<0>> ELSE integer,
         fraction |-> fraction]

(***************************************************************************)
(* The PayPerAPI ledger (contracts/src/PayPerAPI.sol).                     *)
(***************************************************************************)
\* The accounts of the chain: each may deploy, pay, call the owner's
\* operations and send requests to the API.
Identity == {"a1", "a2"}

NoAddress == "0x0"

VARIABLES
    deployed,         \* whether the constructor has run at CONTRACT_ADDRESS
    pricePerRequest,  \* uint256 public immutable pricePerRequest
    owner,            \* address public immutable owner
    paymentBalances,  \* mapping(address => uint256) public paymentBalances
    contractBalance,  \* address(this).balance, the value the contract holds
    funds,            \* the native balance of each account
    lastTx,           \* the receipt of the last transaction sent to the ledger
    txCount           \* the number of transactions sent so far

ledgerVars == <<deployed, pricePerRequest, owner, paymentBalances,
                contractBalance, funds>>

\* What every account owns at the start; the supply of the chain is the sum.
InitialFunds == Add(BigOdd, Two)

Receipt(op, sender, payer, amount, revert, events) ==
    [op |-> op, sender |-> sender, payer |-> payer, amount |-> amount,
     revert |-> revert, events |-> events]

NoReceipt == Receipt("none", NoAddress, NoAddress, Zero, "", <<>>)

PaymentReceived(payer, amount, newBalance) ==
    [name |-> "PaymentReceived", payer |-> payer, amount |-> amount,
     newBalance |-> newBalance]

\* FundsWithdrawn emitted with what the contract holds after the transfer.
FundsWithdrawnAfter(to, amount) ==
    [name |-> "FundsWithdrawn", payer |-> to, amount |-> Zero,
     newBalance |-> Zero]

FundsWithdrawn(to, amount) ==
    [name |-> "FundsWithdrawn", payer |-> to, amount |-> amount,
     newBalance |-> Zero]

LedgerInit ==
    /\ deployed = FALSE
    /\ pricePerRequest = Zero
    /\ owner = NoAddress
    /\ paymentBalances = [a \in Identity |-> Zero]
    /\ contractBalance = Zero
    /\ funds = [a \in Identity |-> InitialFunds]
    /\ lastTx = NoReceipt
    /\ txCount = 0

\* A constructor without the require on the price.
constructorNoCheck(_pricePerRequest) == ""

\* constructor(uint256 _pricePerRequest)
constructorRevert(_pricePerRequest) ==
    IF ~Gt(_pricePerRequest, Zero) THEN "Price must be greater than zero" ELSE ""

\* An initializer that can be called again on a ledger that exists.
reinitialize(sender, _pricePerRequest) ==
    /\ txCount' = txCount + 1
    /\ lastTx' = Receipt("constructor", sender, NoAddress, _pricePerRequest,
                         constructorRevert(_pricePerRequest), <<>>)
    /\ IF constructorRevert(_pricePerRequest) = ""
       THEN /\ deployed' = TRUE
            /\ pricePerRequest' = _pricePerRequest
            /\ owner' = sender
       ELSE UNCHANGED <<deployed, pricePerRequest, owner>>
    /\ UNCHANGED <<paymentBalances, contractBalance, funds>>

constructor(sender, _pricePerRequest) ==
    /\ ~deployed
    /\ txCount' = txCount + 1
    /\ lastTx' = Receipt("constructor", sender, NoAddress, _pricePerRequest,
                         constructorRevert(_pricePerRequest), <<>>)
    /\ IF constructorRevert(_pricePerRequest) = ""
       THEN /\ deployed' = TRUE
            /\ pricePerRequest' = _pricePerRequest
            /\ owner' = sender
       ELSE UNCHANGED <<deployed, pricePerRequest, owner>>
    /\ UNCHANGED <<paymentBalances, contractBalance, funds>>

\* pay without the require on msg.value.
payNoRevert(value) == ""

\* pay recording the value sent instead of adding it to the balance.
payOverwrite(sender, value) == value

\* function pay() external payable
payRevert(value) ==
    IF ~Gt(value, Zero) THEN "Payment amount must be greater than zero" ELSE ""

payNewBalance(sender, value) == Add(paymentBalances[sender], value)

pay(sender, value) ==
    /\ deployed
    /\ Geq(funds[sender], value)
    /\ txCount' = txCount + 1
    /\ lastTx' = Receipt("pay", sender, sender, value, payRevert(value),
                         IF payRevert(value) = ""
                         THEN <<PaymentReceived(sender, value, payNewBalance(sender, value))>>
                         ELSE <<>>)
    /\ IF payRevert(value) = ""
       THEN /\ paymentBalances' = [paymentBalances EXCEPT ![sender] = payNewBalance(sender, value)]
            /\ contractBalance' = Add(contractBalance, value)
            /\ funds' = [funds EXCEPT ![sender] = Sub(@, value)]
       ELSE UNCHANGED <<paymentBalances, contractBalance, funds>>
    /\ UNCHANGED <<deployed, pricePerRequest, owner>>

\* hasPaid with the comparison made strict: a balance of exactly one price
\* does not count as paid.
hasPaidStrict(payer) == Gt(paymentBalances[payer], pricePerRequest)

\* function hasPaid(address payer) external view returns (bool)
hasPaid(payer) == Geq(paymentBalances[payer], pricePerRequest)

\* getPaymentBalance returning what the contract holds instead of the entry
\* of the payer.
getPaymentBalanceOfHeld(payer) == contractBalance

\* function getPaymentBalance(address payer) external view returns (uint256)
getPaymentBalance(payer) == paymentBalances[payer]

\* getAvailableRequests rounding up.
getAvailableRequestsUp(payer) ==
    Div(Add(paymentBalances[payer], Sub(pricePerRequest, One)), pricePerRequest)

\* function getAvailableRequests(address payer) external view returns (uint256)
getAvailableRequests(payer) == Div(paymentBalances[payer], pricePerRequest)

\* function getContractBalance() external view returns (uint256)
getContractBalance == contractBalance

\* deductPayment without the require on the balance.
deductPaymentUnchecked(sender, payer, amount) ==
    IF sender # owner THEN "Only owner can deduct payments" ELSE ""

\* deductPayment with its two requires in the other order.
deductPaymentBalanceFirst(sender, payer, amount) ==
    IF ~Geq(paymentBalances[payer], amount) THEN "Insufficient balance"
    ELSE IF sender # owner THEN "Only owner can deduct payments"
    ELSE ""

\* deductPayment refusing only to deduct from an empty balance.
deductPaymentIfAny(sender, payer, amount) ==
    IF sender # owner THEN "Only owner can deduct payments"
    ELSE IF paymentBalances[payer] = Zero /\ Gt(amount, Zero) THEN "Insufficient balance"
    ELSE ""

\* deductPayment requiring the balance to exceed the amount.
deductPaymentStrict(sender, payer, amount) ==
    IF sender # owner THEN "Only owner can deduct payments"
    ELSE IF ~Gt(paymentBalances[payer], amount) THEN "Insufficient balance"
    ELSE ""

\* function deductPayment(address payer, uint256 amount) external
deductPaymentRevert(sender, payer, amount) ==
    IF sender # owner THEN "Only owner can deduct payments"
    ELSE IF ~Geq(paymentBalances[payer], amount) THEN "Insufficient balance"
    ELSE ""

\* A deductPayment that pays the amount out of what the ledger holds.
deductPaymentPaysOut(sender, payer, amount) ==
    /\ deployed
    /\ txCount' = txCount + 1
    /\ lastTx' = Receipt("deductPayment", sender, payer, amount,
                         deductPaymentRevert(sender, payer, amount), <<>>)
    /\ IF deductPaymentRevert(sender, payer, amount) = ""
       THEN /\ paymentBalances' = [paymentBalances EXCEPT ![payer] = Sub(@, amount)]
            /\ contractBalance' = Sub(contractBalance, amount)
            /\ funds' = [funds EXCEPT ![owner] = Add(@, amount)]
       ELSE UNCHANGED <<paymentBalances, contractBalance, funds>>
    /\ UNCHANGED <<deployed, pricePerRequest, owner>>

deductPayment(sender, payer, amount) ==
    /\ deployed
    /\ txCount' = txCount + 1
    /\ lastTx' = Receipt("deductPayment", sender, payer, amount,
                         deductPaymentRevert(sender, payer, amount), <<>>)
    /\ IF deductPaymentRevert(sender, payer, amount) = ""
       THEN paymentBalances' = [paymentBalances EXCEPT ![payer] = Sub(@, amount)]
       ELSE UNCHANGED paymentBalances
    /\ UNCHANGED <<deployed, pricePerRequest, owner, contractBalance, funds>>

\* withdraw with its first two requires in the other order.
withdrawFundsFirst(sender, success) ==
    IF ~Gt(contractBalance, Zero) THEN "No funds to withdraw"
    ELSE IF sender # owner THEN "Only owner can withdraw"
    ELSE IF ~success THEN "Withdrawal failed"
    ELSE ""

\* function withdraw() external; success is the result of the call that
\* sends the value to the owner (an owner that is a contract may refuse it).
withdrawRevert(sender, success) ==
    IF sender # owner THEN "Only owner can withdraw"
    ELSE IF ~Gt(contractBalance, Zero) THEN "No funds to withdraw"
    ELSE IF ~success THEN "Withdrawal failed"
    ELSE ""

\* A withdraw that also clears the balances of the accounts.
withdrawClearsBalances(sender, success) ==
    /\ deployed
    /\ txCount' = txCount + 1
    /\ lastTx' = Receipt("withdraw", sender, NoAddress, contractBalance,
                         withdrawRevert(sender, success),
                         IF withdrawRevert(sender, success) = ""
                         THEN <<FundsWithdrawn(owner, contractBalance)>>
                         ELSE <<>>)
    /\ IF withdrawRevert(sender, success) = ""
       THEN /\ funds' = [funds EXCEPT ![owner] = Add(@, contractBalance)]
            /\ contractBalance' = Zero
            /\ paymentBalances' = [a \in Identity |-> Zero]
       ELSE UNCHANGED <<funds, contractBalance, paymentBalances>>
    /\ UNCHANGED <<deployed, pricePerRequest, owner>>

withdraw(sender, success) ==
    /\ deployed
    /\ txCount' = txCount + 1
    /\ lastTx' = Receipt("withdraw", sender, NoAddress, contractBalance,
                         withdrawRevert(sender, success),
                         IF withdrawRevert(sender, success) = ""
                         THEN <<FundsWithdrawn(owner, contractBalance)>>
                         ELSE <<>>)
    /\ IF withdrawRevert(sender, success) = ""
       THEN /\ funds' = [funds EXCEPT ![owner] = Add(@, contractBalance)]
            /\ contractBalance' = Zero
       ELSE UNCHANGED <<funds, contractBalance>>
    /\ UNCHANGED <<deployed, pricePerRequest, owner, paymentBalances>>

(***************************************************************************)
(* Text.  A JavaScript string is the sequence of its characters, so that   *)
(* toUpperCase, split and the exact comparison of keys are computed.       *)
(***************************************************************************)
LowerLetters == <<"a", "b", "c", "d", "e", "f", "g", "h", "i", "j", "k", "l", "m", "n", "o", "p", "q", "r", "s", "t", "u", "v", "w", "x", "y", "z">>

UpperLetters == <<"A", "B", "C", "D", "E", "F", "G", "H", "I", "J", "K", "L", "M", "N", "O", "P", "Q", "R", "S", "T", "U", "V", "W", "X", "Y", "Z">>

IndexIn(c, letters) ==
    IF \E i \in 1..Len(letters) : letters[i] = c
    THEN CHOOSE i \in 1..Len(letters) : letters[i] = c
    ELSE 0

toUpperCase(s) ==
    [i \in 1..Len(s) |->
        IF IndexIn(s[i], LowerLetters) > 0
        THEN UpperLetters[IndexIn(s[i], LowerLetters)] ELSE s[i]]

toLowerCase(s) ==
    [i \in 1..Len(s) |->
        IF IndexIn(s[i], UpperLetters) > 0
        THEN LowerLetters[IndexIn(s[i], UpperLetters)] ELSE s[i]]

\* String.prototype.split(' '): the pieces between the spaces.
RECURSIVE split(_, _)
split(s, cur) ==
    IF s = <<>> THEN <<cur>>
    ELSE IF Head(s) = " " THEN <<cur>> \o split(Tail(s), <<>>)
    ELSE split(Tail(s), Append(cur, Head(s)))

\* String.prototype.trim() (a piece of a split on spaces holds no space).
RECURSIVE trim(_)
trim(s) ==
    IF s # <<>> /\ Head(s) = " " THEN trim(Tail(s))
    ELSE IF s # <<>> /\ s[Len(s)] = " " THEN trim(SubSeq(s, 1, Len(s) - 1))
    ELSE s

\* What a template literal prints for a missing value.
UndefinedText == <<"u", "n", "d", "e", "f", "i", "n", "e", "d">>

\* `${a} ${b}`
Key(a, b) == a \o <<" ">> \o b

GET == <<"G", "E", "T">>

POST == <<"P", "O", "S", "T">>

HEAD == <<"H", "E", "A", "D">>

(***************************************************************************)
(* The route gate (backend/src/middleware/x402PaymentConfig.js) and the    *)
(* route tables of the server (backend/src/server.js).                     *)
(***************************************************************************)
Undefined == [undefined |-> TRUE]

\* A Map, in insertion order: set() replaces the value of a key it holds.
MapHas(m, k) == \E i \in 1..Len(m) : m[i].key = k

MapGet(m, k) ==
    IF MapHas(m, k) THEN m[CHOOSE i \in 1..Len(m) : m[i].key = k].value
    ELSE Undefined

\* A set() that keeps the value a key already has.
MapSetKeepsFirst(m, k, v) ==
    IF MapHas(m, k) THEN m
    ELSE Append(m, [key |-> k, value |-> v])

\* A set() that removes a key it holds instead of replacing its value.
MapSetToggles(m, k, v) ==
    IF MapHas(m, k)
    THEN SelectSeq(m, LAMBDA e : e.key # k)
    ELSE Append(m, [key |-> k, value |-> v])

MapSet(m, k, v) ==
    IF MapHas(m, k)
    THEN [i \in 1..Len(m) |-> IF m[i].key = k THEN [key |-> k, value |-> v] ELSE m[i]]
    ELSE Append(m, [key |-> k, value |-> v])

\* const [method, path] = route.split(' ').map(s => s.trim())
RouteParts(route) ==
    LET parts == split(route, <<>>)
    IN  [method |-> trim(parts[1]),
         path   |-> IF Len(parts) >= 2 THEN trim(parts[2]) ELSE UndefinedText]

\* The key of a route with its method as the configuration writes it.
RouteKeyAsWritten(route) == Key(RouteParts(route).method, RouteParts(route).path)

RouteKey(route) == Key(toUpperCase(RouteParts(route).method), RouteParts(route).path)

RoutePolicy(route, config) ==
    [method      |-> toUpperCase(RouteParts(route).method),
     path        |-> RouteParts(route).path,
     accepts     |-> IF "accepts" \in DOMAIN config THEN config.accepts
                     ELSE <<"rootstock">>,
     description |-> IF "description" \in DOMAIN config /\ config.description # ""
                     THEN config.description ELSE "Protected endpoint"]

\* paymentMiddleware(routeConfig): the Map the returned middleware closes over,
\* filled from Object.entries(routeConfig) in order.
RECURSIVE LoadRoutes(_, _)
LoadRoutes(entries, routes) ==
    IF entries = <<>> THEN routes
    ELSE LoadRoutes(Tail(entries),
                    MapSet(routes, RouteKey(Head(entries).route),
                           RoutePolicy(Head(entries).route, Head(entries).config)))

paymentMiddleware(routeConfig) == LoadRoutes(routeConfig, <<>>)

PathData == <<"/", "a", "p", "i", "/", "d", "a", "t", "a">>

PathWeather == <<"/", "a", "p", "i", "/", "w", "e", "a", "t", "h", "e", "r">>

PathInfer == <<"/", "a", "p", "i", "/", "a", "i", "/", "i", "n", "f", "e", "r">>

PathHealth == <<"/", "h", "e", "a", "l", "t", "h">>

\* The configuration server.js passes to paymentMiddleware.
ServerRouteConfig ==
    << [route  |-> Key(GET, PathData),
        config |-> [accepts |-> <<"rootstock">>, description |-> "Protected data API"]],
       [route  |-> Key(GET, PathWeather),
        config |-> [accepts |-> <<"rootstock">>, description |-> "Weather data API"]],
       [route  |-> Key(POST, PathInfer),
        config |-> [accepts |-> <<"rootstock">>, description |-> "AI inference service"]] >>

\* The handlers server.js registers after the gate, in order (the status
\* endpoint, which is not gated and verifies on its own, is left out).
ServerHandlers ==
    << [method |-> GET,  path |-> PathHealth,  handler |-> "health"],
       [method |-> GET,  path |-> PathData,    handler |-> "data"],
       [method |-> GET,  path |-> PathWeather, handler |-> "weather"],
       [method |-> POST, path |-> PathInfer,   handler |-> "infer"] >>

PaidHandlers == {"data", "weather", "infer"}

\* The path matching of an Express route with the default settings: letter
\* case is ignored and one trailing slash is optional.
StripSlash(path) ==
    IF Len(path) > 1 /\ path[Len(path)] = "/" THEN SubSeq(path, 1, Len(path) - 1)
    ELSE path

ExpressMatches(route, method, path) ==
    /\ \/ route.method = method
       \/ route.method = GET /\ method = HEAD
    /\ toLowerCase(StripSlash(path)) = toLowerCase(route.path)

\* The handler the router runs for a request the gate passed on: the first
\* registered route that matches, else the 404 handler.
Dispatch(method, path) ==
    IF \E i \in 1..Len(ServerHandlers) : ExpressMatches(ServerHandlers[i], method, path)
    THEN ServerHandlers[CHOOSE i \in 1..Len(ServerHandlers) :
            /\ ExpressMatches(ServerHandlers[i], method, path)
            /\ \A j \in 1..(i - 1) : ~ExpressMatches(ServerHandlers[j], method, path)].handler
    ELSE "notFound"

(***************************************************************************)
(* The verifier and the x402 middleware                                    *)
(* (backend/src/middleware/x402Payment.js).                                *)
(***************************************************************************)
VARIABLES
    routes,     \* the Map of route policies the gate closes over
    requests,   \* the requests the server has received, by arrival
    observed,   \* per request: what the ledger did around it (history)
    client,     \* per account: the 402 it was last quoted (history)
    history,    \* what the ledger was created with, took in and returned (history)
    arrived     \* the number of requests received so far

vars == <<deployed, pricePerRequest, owner, paymentBalances, contractBalance,
          funds, lastTx, txCount, routes, requests, observed, client, history,
          arrived>>

CONTRACT_ADDRESS == "0xa1f4d43749abedb6a835af9184cd0a9c194d4c8a"

\* The values the x-wallet-address header can hold: none, the empty string,
\* text that is no address, and the address of an account.
AbsentHeader == [form |-> "absent", addr |-> NoAddress]

EmptyHeader == [form |-> "empty", addr |-> NoAddress]

MalformedHeader == [form |-> "malformed", addr |-> NoAddress]

AddressHeader(a) == [form |-> "address", addr |-> a]

Headers == {AbsentHeader, EmptyHeader, MalformedHeader} \cup {AddressHeader(a) : a \in Identity}

\* The test of the header as `walletAddress === undefined`, which lets the
\* empty string through.
HeaderUndefined(walletAddress) == walletAddress.form = "absent"

\* if (!walletAddress)
MissingWalletAddress(walletAddress) == walletAddress.form \in {"absent", "empty"}

\* isAddress(walletAddress) of viem
isAddress(walletAddress) == walletAddress.form = "address"

ReadNames == {"hasPaid", "getPaymentBalance", "getAvailableRequests", "pricePerRequest"}

NotIssued == [hasPaid              |-> [status |-> "none", value |-> FALSE],
              getPaymentBalance    |-> [status |-> "none", value |-> Zero],
              getAvailableRequests |-> [status |-> "none", value |-> Zero],
              pricePerRequest      |-> [status |-> "none", value |-> Zero]]

SetStatus(reads, from, to) ==
    [k \in ReadNames |->
        IF reads[k].status \in from
        THEN [status |-> to, value |-> NotIssued[k].value] ELSE reads[k]]

\* http(process.env.ROOTSTOCK_TESTNET_RPC_URL || '...'): the transport of
\* publicClient is given a url and no options, so no timeout; verifyPayment
\* takes the address only and passes none to readContract either.
HttpTransportConfig == [url |-> "ROOTSTOCK_TESTNET_RPC_URL", timeout |-> Undefined]

\* What bounds a read: the timeout the caller configured, or without one the
\* default of the transport.
ReadTimeout ==
    IF HttpTransportConfig.timeout # Undefined
    THEN [suppliedBy |-> "caller", value |-> HttpTransportConfig.timeout]
    ELSE [suppliedBy |-> "transport default", value |-> Undefined]

\* publicClient.readContract({functionName, args: [walletAddress]}): the value
\* the ledger returns at the moment the call executes.
readContract(functionName, address) ==
    CASE functionName = "hasPaid"              -> hasPaid(address)
      [] functionName = "getPaymentBalance"    -> getPaymentBalance(address)
      [] functionName = "getAvailableRequests" -> getAvailableRequests(address)
      [] functionName = "pricePerRequest"      -> pricePerRequest

\* The failures of a read: the transport gives up, or the address holds no
\* contract and the call returns no data.
TimedOut == "The request took too long to respond."

NoData == "The contract function returned no data."

\* A transport whose reads never give up.
NoFailures == {}

ReadFailures == IF deployed THEN {TimedOut} ELSE {TimedOut, NoData}

\* What verifyPayment returns once all four reads have resolved.
verifyPaymentResult(reads) ==
    [hasPaid           |-> reads["hasPaid"].value,
     balance           |-> reads["getPaymentBalance"].value,
     availableRequests |-> NumberOf(reads["getAvailableRequests"].value),
     pricePerRequest   |-> reads["pricePerRequest"].value]

NoAmount == [integer |-> <<>>, fraction |-> <<>>]

\* Payment instructions that state the amount in RBTC, not in wei.
generatePaymentInstructionsInRBTC(price) ==
    [payment |->
        [network  |-> [chainId |-> 31, name |-> "Rootstock Testnet", currency |-> "RBTC"],
         contract |-> [address  |-> CONTRACT_ADDRESS,
                       function |-> "pay",
                       abi      |-> << [inputs |-> <<>>, name |-> "pay", outputs |-> <<>>,
                                        stateMutability |-> "payable",
                                        type |-> "function"] >>],
         amount   |-> [value     |-> formatRBTC(price).integer,
                       formatted |-> formatRBTC(price),
                       currency  |-> "RBTC"],
         instructions |->
            [description |-> "Send RBTC payment to the PayPerAPI contract",
             steps |-> << [text |-> "Call the pay() function on the contract", rbtc |-> NoAmount],
                          [text |-> "Send at least ... RBTC", rbtc |-> formatRBTC(price)],
                          [text |-> "Wait for transaction confirmation", rbtc |-> NoAmount],
                          [text |-> "Retry your API request", rbtc |-> NoAmount] >>]],
     metadata |-> [standard |-> "x402", version |-> "1.0",
                   endpoint |-> "PayPerAPI on Rootstock"]]

generatePaymentInstructions(price) ==
    [payment |->
        [network  |-> [chainId |-> 31, name |-> "Rootstock Testnet", currency |-> "RBTC"],
         contract |-> [address  |-> CONTRACT_ADDRESS,
                       function |-> "pay",
                       abi      |-> << [inputs |-> <<>>, name |-> "pay", outputs |-> <<>>,
                                        stateMutability |-> "payable",
                                        type |-> "function"] >>],
         amount   |-> [value     |-> toString(price),
                       formatted |-> formatRBTC(price),
                       currency  |-> "RBTC"],
         instructions |->
            [description |-> "Send RBTC payment to the PayPerAPI contract",
             steps |-> << [text |-> "Call the pay() function on the contract", rbtc |-> NoAmount],
                          [text |-> "Send at least ... RBTC", rbtc |-> formatRBTC(price)],
                          [text |-> "Wait for transaction confirmation", rbtc |-> NoAmount],
                          [text |-> "Retry your API request", rbtc |-> NoAmount] >>]],
     metadata |-> [standard |-> "x402", version |-> "1.0",
                   endpoint |-> "PayPerAPI on Rootstock"]]

NoBody == [error |-> "", message |-> ""]

MissingWalletBody ==
    [error   |-> "Missing wallet address",
     message |-> "Please include your wallet address in the x-wallet-address header"]

VerificationFailedBody(message) ==
    [error   |-> "Payment verification failed",
     message |-> IF message = "" THEN "Unable to verify payment status" ELSE message]

\* currentStatus reporting what verifyPayment returned instead of the
\* literals false and 0.
CurrentStatusAsRead(walletAddress, v) ==
    [walletAddress     |-> walletAddress,
     balance           |-> toString(v.balance),
     balanceFormatted  |-> formatRBTC(v.balance),
     hasPaid           |-> v.hasPaid,
     availableRequests |-> v.availableRequests]

CurrentStatus(walletAddress, v) ==
    [walletAddress     |-> walletAddress,
     balance           |-> toString(v.balance),
     balanceFormatted  |-> formatRBTC(v.balance),
     hasPaid           |-> FALSE,
     availableRequests |-> Zero]

PaymentRequiredBody(walletAddress, v) ==
    [status        |-> 402,
     message       |-> "Payment Required",
     payment       |-> generatePaymentInstructions(v.pricePerRequest).payment,
     metadata      |-> generatePaymentInstructions(v.pricePerRequest).metadata,
     currentStatus |-> CurrentStatus(walletAddress, v)]

\* req.paymentInfo
PaymentInfo(walletAddress, v) ==
    [walletAddress     |-> walletAddress,
     balance           |-> toString(v.balance),
     availableRequests |-> v.availableRequests,
     pricePerRequest   |-> toString(v.pricePerRequest)]

\* A request as the gate receives it.  prompt is set when a handler reads the
\* body: whether it holds a prompt, which only /api/ai/infer looks at.
NewRequest(method, path, header) ==
    [pc |-> "received", method |-> method, path |-> path, prompt |-> FALSE,
     header |-> header, routeMetadata |-> Undefined, verifyCalls |-> 0,
     reads |-> NotIssued, rejection |-> "", abandoned |-> 0, responses |-> 0, gateStatus |-> 0, body |-> NoBody,
     nextCalls |-> 0, paymentInfo |-> Undefined, handler |-> "none",
     httpStatus |-> 0]

NoRequest == [NewRequest(<<>>, <<>>, AbsentHeader) EXCEPT !.pc = "idle"]

\* res.status(code).json(body)
Respond(r, code, body) ==
    [r EXCEPT !.pc = "done", !.responses = @ + 1, !.gateStatus = code,
              !.body = body, !.httpStatus = code]

\* The status the handler answers with: /api/data reads req.paymentInfo and
\* throws into the error middleware without it, /api/ai/infer wants a prompt.
HandlerStatus(handler, r, prompt) ==
    CASE handler = "data"     -> IF r.paymentInfo = Undefined THEN 500 ELSE 200
      [] handler = "infer"    -> IF prompt THEN 200 ELSE 400
      [] handler = "notFound" -> 404
      [] OTHER                -> 200

\* next(): the router runs the handler of the request.
next(r, prompt) ==
    [r EXCEPT !.pc = "done", !.nextCalls = @ + 1,
              !.handler = Dispatch(r.method, r.path),
              !.prompt = prompt /\ Dispatch(r.method, r.path) = "infer",
              !.httpStatus = HandlerStatus(Dispatch(r.method, r.path), r, prompt)]

\* A then callback without the return after the 402: it writes the 402 and
\* goes on to attach the payment information and call next().
ThenCallbackFallsThrough(r, v, prompt) ==
    IF ~v.hasPaid
    THEN next([Respond(r, 402, PaymentRequiredBody(r.header, v)) EXCEPT
                    !.paymentInfo = PaymentInfo(r.header, v)], prompt)
    ELSE next([r EXCEPT !.paymentInfo = PaymentInfo(r.header, v)], prompt)

\* A then callback of a gate that remembers the accounts it has quoted a
\* price to and lets their next request through.
ThenCallbackRemembers(r, v, prompt) ==
    IF ~v.hasPaid /\ ~client[r.header.addr].quoted
    THEN Respond(r, 402, PaymentRequiredBody(r.header, v))
    ELSE next([r EXCEPT !.paymentInfo = PaymentInfo(r.header, v)], prompt)

\* .then(({hasPaid, balance, availableRequests, pricePerRequest}) => ...)
ThenCallback(r, v, prompt) ==
    IF ~v.hasPaid
    THEN Respond(r, 402, PaymentRequiredBody(r.header, v))
    ELSE next([r EXCEPT !.paymentInfo = PaymentInfo(r.header, v)], prompt)

\* A catch callback that treats a failed verification as an unpaid account.
CatchAsUnpaid(r, message) ==
    Respond([r EXCEPT !.rejection = message], 402,
            PaymentRequiredBody(r.header, verifyPaymentResult(r.reads)))

\* A catch callback that issues the four reads again instead of answering.
CatchAndRetry(r, message) ==
    [r EXCEPT !.rejection = message, !.abandoned = 0,
              !.verifyCalls = @ + 1,
              !.reads = SetStatus(NotIssued, {"none"}, "pending")]

\* .catch((error) => ...)
CatchCallback(r, message) ==
    Respond([r EXCEPT !.rejection = message], 500, VerificationFailedBody(message))

\* x402PaymentMiddleware(req, res, next), up to the dispatch of the reads.  A
\* malformed address makes verifyPayment throw before any read is issued and
\* the rejection reaches the catch callback.
x402PaymentMiddleware(r) ==
    IF MissingWalletAddress(r.header) THEN Respond(r, 400, MissingWalletBody)
    ELSE IF ~isAddress(r.header)
    THEN CatchCallback([r EXCEPT !.verifyCalls = @ + 1], "Invalid wallet address format")
    ELSE [r EXCEPT !.pc = "verifying", !.verifyCalls = @ + 1,
                   !.reads = SetStatus(NotIssued, {"none"}, "pending")]

\* A gate that looks a request up by its path alone, whatever its method.
RouteGateByPath(r, prompt) ==
    IF \E n \in 1..Len(routes) : routes[n].value.path = r.path
    THEN x402PaymentMiddleware(
            [r EXCEPT !.routeMetadata =
                routes[CHOOSE n \in 1..Len(routes) : routes[n].value.path = r.path].value])
    ELSE next(r, prompt)

\* The middleware paymentMiddleware returns.
RouteGate(r, prompt) ==
    IF MapGet(routes, Key(r.method, r.path)) # Undefined
    THEN x402PaymentMiddleware(
            [r EXCEPT !.routeMetadata = MapGet(routes, Key(r.method, r.path))])
    ELSE next(r, prompt)

(***************************************************************************)
(* The requests the server receives and the steps of one verification.     *)
(***************************************************************************)
MaxReq == 1

MaxRetry == 1

MaxSlots == 2

Slots == 1..MaxSlots

Shape(method, path) == [method |-> method, path |-> path]

\* The requests sent to the server: the three paid routes, a free route, the
\* paid paths under another method, letter case or with a trailing slash, and
\* a path nothing serves.
PaidShapes ==
    {Shape(GET, PathData), Shape(GET, PathWeather), Shape(POST, PathInfer)}

RequestShapes ==
    PaidShapes \cup
    { Shape(GET, PathHealth),
      Shape(HEAD, PathWeather),
      Shape(GET, toUpperCase(PathWeather)),
      Shape(GET, PathData \o <<"/">>),
      Shape(POST, PathData) }

ShapeOf(r) == Shape(r.method, r.path)

Restricted(r) == r.routeMetadata # Undefined

AllResolved(reads) == \A k \in ReadNames : reads[k].status = "ok"

NotObserved ==
    [paidAtStart |-> FALSE, deducted |-> FALSE, moved |-> FALSE, retry |-> FALSE,
     concurrent |-> FALSE]

NoQuote == [quoted |-> FALSE, shape |-> Shape(<<>>, <<>>), amount |-> Zero, paid |-> FALSE]

\* What is noted when request i arrives as r: whether its account could
\* already pay for a request, whether it repeats the request its account
\* was last answered 402 for, the quoted amount having been paid since, and
\* whether another request of its account is being verified (concurrent).
ObserveArrival(i, r) ==
    observed' = [observed EXCEPT ![i] =
        [paidAtStart |-> /\ r.header.form = "address"
                         /\ deployed
                         /\ Geq(paymentBalances[r.header.addr], pricePerRequest),
         deducted    |-> FALSE,
         moved       |-> FALSE,
         retry       |-> /\ r.header.form = "address"
                         /\ client[r.header.addr].paid
                         /\ client[r.header.addr].shape = ShapeOf(r),
         concurrent  |-> \E j \in Slots \ {i} :
                            /\ requests[j].pc = "verifying"
                            /\ requests[j].header = r.header]]

\* What is noted when the gate has answered request i (requests'[i]) with 402:
\* the request and the amount the body states.
ObserveResponse(i) ==
    client' = IF requests'[i].gateStatus = 402 /\ requests[i].gateStatus # 402
              THEN [client EXCEPT ![requests'[i].header.addr] =
                      [quoted |-> TRUE,
                       shape  |-> ShapeOf(requests'[i]),
                       amount |-> ParseDecimal(requests'[i].body.payment.amount.value),
                       paid   |-> FALSE]]
              ELSE client

NoCall == [function |-> "none", payer |-> NoAddress, balance |-> Zero,
           price |-> Zero, result |-> Zero, calls |-> 0]

\* Nothing was created, paid, deducted or called yet; the gate was built once
\* from the configuration of the server.
NoHistory ==
    [creator  |-> NoAddress,
     price    |-> Zero,
     paid     |-> [a \in Identity |-> Zero],
     deducted |-> [a \in Identity |-> Zero],
     withdrawn |-> Zero,
     call     |-> NoCall,
     config   |-> ServerRouteConfig,
     loads    |-> 1]

\* The history of a ledger that sender created with price.
CreatedHistory(sender, price) ==
    [NoHistory EXCEPT !.creator = sender, !.price = price]

\* What is noted of the transaction whose receipt is lastTx': who created the
\* ledger and with what price, the sums each account paid in and had
\* deducted, and the sum of what was withdrawn.
ObserveLedger ==
    history' =
        IF lastTx'.revert # "" THEN history
        ELSE CASE lastTx'.op = "constructor" ->
                    [history EXCEPT !.creator = lastTx'.sender,
                                    !.price = lastTx'.amount]
               [] lastTx'.op = "pay" ->
                    [history EXCEPT !.paid[lastTx'.sender] = Add(@, lastTx'.amount)]
               [] lastTx'.op = "deductPayment" ->
                    [history EXCEPT !.deducted[lastTx'.payer] = Add(@, lastTx'.amount)]
               [] lastTx'.op = "withdraw" ->
                    [history EXCEPT !.withdrawn = Add(@, lastTx'.amount)]
               [] OTHER -> history

\* What is noted when the ledger has run a transaction (its receipt is
\* lastTx'): a payment of the quoted amount by a quoted account, and a
\* deduction from an account (which ends what its payment bought); a
\* deduction is noted on every request of the account that is being verified,
\* and so is a payment or a deduction that commits after one of the reads of
\* the request has returned (moved).
ObserveTx ==
    /\ ObserveLedger
    /\ client' = [a \in Identity |->
            IF /\ lastTx'.revert = "" /\ lastTx'.op = "pay" /\ lastTx'.sender = a
               /\ client[a].quoted /\ client[a].amount = lastTx'.amount
            THEN [client[a] EXCEPT !.paid = TRUE]
            ELSE IF lastTx'.revert = "" /\ lastTx'.op = "deductPayment" /\ lastTx'.payer = a
            THEN [client[a] EXCEPT !.paid = FALSE]
            ELSE client[a]]
    /\ observed' = [i \in Slots |->
            IF /\ lastTx'.revert = "" /\ lastTx'.op = "deductPayment"
               /\ requests[i].pc = "verifying"
               /\ requests[i].header.addr = lastTx'.payer
            THEN [observed[i] EXCEPT
                    !.deducted = TRUE,
                    !.moved = @ \/ \E k \in ReadNames : requests[i].reads[k].status = "ok"]
            ELSE IF /\ lastTx'.revert = "" /\ lastTx'.op = "pay"
                    /\ requests[i].pc = "verifying"
                    /\ requests[i].header.addr = lastTx'.sender
                    /\ \E k \in ReadNames : requests[i].reads[k].status = "ok"
            THEN [observed[i] EXCEPT !.moved = TRUE]
            ELSE observed[i]]

\* A gate that consumes the price of a request from the account it lets
\* through (what deductPaymentAfterRequest is a placeholder for).
GateDeductsOnPass ==
    /\ paymentBalances' = [a \in Identity |->
            IF \E i \in Slots : /\ requests'[i].nextCalls > requests[i].nextCalls
                                /\ requests'[i].routeMetadata # Undefined
                                /\ requests'[i].header.addr = a
            THEN Sub(paymentBalances[a], pricePerRequest)
            ELSE paymentBalances[a]]
    /\ UNCHANGED <<deployed, pricePerRequest, owner, contractBalance, funds,
                   lastTx, txCount>>

\* What a step of the gate does to the ledger: it only reads it (the verifier
\* holds a public client and no wallet; deductPaymentAfterRequest only logs
\* and nothing calls it).
GateLedgerEffect == UNCHANGED <<ledgerVars, lastTx, txCount>>

\* A request arrives and runs through the gate up to its first suspension.
Arrive(i, shape, header, prompt) ==
    /\ requests[i].pc = "idle"
    /\ \A j \in 1..(i - 1) : requests[j].pc # "idle"
    /\ arrived' = arrived + 1
    /\ requests' = [requests EXCEPT ![i] =
            RouteGate(NewRequest(shape.method, shape.path, header), prompt)]
    /\ ObserveArrival(i, NewRequest(shape.method, shape.path, header))
    /\ GateLedgerEffect
    /\ UNCHANGED <<routes, client, history>>

\* A client sends a request.
Request(i, shape, header, prompt) ==
    /\ arrived < MaxReq
    /\ Arrive(i, shape, header, prompt)

\* A client that was answered 402 sends the same request again.
Retry(i, a, prompt) ==
    /\ arrived < MaxReq + MaxRetry
    /\ client[a].quoted
    /\ Arrive(i, client[a].shape, AddressHeader(a), prompt)

\* Reads that return one snapshot: every read that has returned is taken
\* again from the ledger when another one returns.
ReadReturnsSnapshot(i, k, prompt) ==
    /\ requests[i].pc = "verifying"
    /\ requests[i].reads[k].status = "pending"
    /\ deployed
    /\ LET reads == [n \in ReadNames |->
                        IF n = k \/ requests[i].reads[n].status = "ok"
                        THEN [status |-> "ok",
                              value  |-> readContract(n, requests[i].header.addr)]
                        ELSE requests[i].reads[n]]
           r     == [requests[i] EXCEPT !.reads = reads]
       IN  requests' = [requests EXCEPT ![i] =
                IF AllResolved(reads)
                THEN ThenCallback(r, verifyPaymentResult(reads), prompt)
                ELSE r]
    /\ ObserveResponse(i)
    /\ GateLedgerEffect
    /\ UNCHANGED <<routes, observed, history, arrived>>

\* One of the four reads of request i returns.  The last one to return
\* resolves Promise.all and the then callback runs.
ReadReturns(i, k, prompt) ==
    /\ requests[i].pc = "verifying"
    /\ requests[i].reads[k].status = "pending"
    /\ deployed
    /\ LET reads == [requests[i].reads EXCEPT
                        ![k] = [status |-> "ok",
                                value  |-> readContract(k, requests[i].header.addr)]]
           r     == [requests[i] EXCEPT !.reads = reads]
       IN  requests' = [requests EXCEPT ![i] =
                IF AllResolved(reads)
                THEN ThenCallback(r, verifyPaymentResult(reads), prompt)
                ELSE r]
    /\ ObserveResponse(i)
    /\ GateLedgerEffect
    /\ UNCHANGED <<routes, observed, history, arrived>>

\* One of the four reads of request i fails.  Promise.all rejects at once and
\* the catch callback runs: the results of the other reads are dropped, and
\* those still in flight are abandoned, not cancelled.
ReadFails(i, k, cause) ==
    /\ requests[i].pc = "verifying"
    /\ requests[i].reads[k].status = "pending"
    /\ cause \in ReadFailures
    /\ LET inFlight == {n \in ReadNames \ {k} : requests[i].reads[n].status = "pending"}
           reads    == [SetStatus(requests[i].reads, {"ok", "pending"}, "dropped") EXCEPT
                            ![k] = [status |-> "failed", value |-> NotIssued[k].value]]
       IN  requests' = [requests EXCEPT ![i] =
                CatchCallback([requests[i] EXCEPT !.reads = reads,
                                                  !.abandoned = Cardinality(inFlight)],
                              cause)]
    /\ GateLedgerEffect
    /\ UNCHANGED <<routes, observed, client, history, arrived>>

\* A late result that is answered too: the catch callback runs once more.
LateResultRespondsAgain(i) ==
    /\ requests[i].pc = "done"
    /\ requests[i].abandoned > 0
    /\ requests' = [requests EXCEPT ![i] =
            CatchCallback([requests[i] EXCEPT !.abandoned = @ - 1], TimedOut)]
    /\ GateLedgerEffect
    /\ UNCHANGED <<routes, observed, client, history, arrived>>

\* A read that was still in flight when Promise.all rejected comes back, with
\* a value or an error: nothing is waiting for it.
LateResult(i) ==
    /\ requests[i].pc = "done"
    /\ requests[i].abandoned > 0
    /\ requests' = [requests EXCEPT ![i].abandoned = @ - 1]
    /\ GateLedgerEffect
    /\ UNCHANGED <<routes, observed, client, history, arrived>>

\* The exchange of request i is over and nothing of it is kept.
Forget(i) ==
    /\ requests[i].pc = "done"
    /\ requests[i].abandoned = 0
    /\ \A j \in Slots : j > i => requests[j].pc = "idle"
    /\ requests' = [requests EXCEPT ![i] = NoRequest]
    /\ observed' = [observed EXCEPT ![i] = NotObserved]
    /\ GateLedgerEffect
    /\ UNCHANGED <<routes, client, history, arrived>>

(***************************************************************************)
(* The system: the ledger and the requests arriving at the server.         *)
(***************************************************************************)
GateInit ==
    /\ routes = paymentMiddleware(ServerRouteConfig)
    /\ requests = [i \in Slots |-> NoRequest]
    /\ observed = [i \in Slots |-> NotObserved]
    /\ client = [a \in Identity |-> NoQuote]
    /\ arrived = 0

\* The inputs of the transactions: the prices a deployment is tried with and
\* the amounts sent or deducted.
Prices == {Zero, One, Two}

Amounts == {Zero, One, Two, BigOdd}

MaxTx == 4

\* The gate and the history take no part in a transaction.
LedgerOnly == ObserveTx /\ UNCHANGED <<routes, requests, arrived>>

Deploy ==
    \E sender \in Identity, price \in Prices :
        txCount < MaxTx /\ constructor(sender, price) /\ LedgerOnly

Pay ==
    \E sender \in Identity, value \in Amounts :
        txCount < MaxTx /\ pay(sender, value) /\ LedgerOnly

Deduct ==
    \E sender, payer \in Identity, amount \in Amounts :
        txCount < MaxTx /\ deductPayment(sender, payer, amount) /\ LedgerOnly

Withdraw ==
    \E sender \in Identity, success \in BOOLEAN :
        txCount < MaxTx /\ withdraw(sender, success) /\ LedgerOnly

\* An account calls the view getAvailableRequests (an eth_call: no
\* transaction is sent) and notes what it returned for which balance.
View ==
    \E payer \in Identity :
        /\ deployed
        /\ history' = [history EXCEPT !.call =
                [function |-> "getAvailableRequests",
                 payer    |-> payer,
                 balance  |-> paymentBalances[payer],
                 price    |-> pricePerRequest,
                 result   |-> getAvailableRequests(payer),
                 calls    |-> 0]]
        /\ UNCHANGED <<ledgerVars, lastTx, txCount, routes, requests, observed,
                       client, arrived>>

LedgerNext == Deploy \/ Pay \/ Deduct \/ Withdraw \/ View

\* The ledger on its own, from before its deployment.
LedgerStart == LedgerInit /\ GateInit /\ history = NoHistory

LedgerSpec == LedgerStart /\ [][LedgerNext]_vars

\* The server starts with CONTRACT_ADDRESS holding a ledger that the first
\* account deployed with some price, or holding nothing.
Deployer == "a1"

Init ==
    /\ GateInit
    /\ paymentBalances = [a \in Identity |-> Zero]
    /\ contractBalance = Zero
    /\ funds = [a \in Identity |-> InitialFunds]
    /\ txCount = 0
    /\ \/ /\ deployed = FALSE
          /\ pricePerRequest = Zero
          /\ owner = NoAddress
          /\ lastTx = NoReceipt
          /\ history = NoHistory
       \/ \E price \in Prices \ {Zero} :
          /\ deployed = TRUE
          /\ pricePerRequest = price
          /\ owner = Deployer
          /\ lastTx = Receipt("constructor", Deployer, NoAddress, price, "", <<>>)
          /\ history = CreatedHistory(Deployer, price)

MaxGateTx == 2

\* The transactions that move what the gate reads while it serves requests:
\* the payments of the accounts, and the owner deducting the price of a request.
ClientPays ==
    \E sender \in Identity, value \in Amounts \ {Zero} :
        txCount < MaxGateTx /\ pay(sender, value) /\ LedgerOnly

OwnerDeducts ==
    \E payer \in Identity :
        txCount < MaxGateTx /\ deductPayment(owner, payer, pricePerRequest) /\ LedgerOnly

\* The server answering one request at a time while the ledger moves.
Next ==
    \/ ClientPays
    \/ OwnerDeducts
    \/ \E shape \in RequestShapes, header \in Headers, prompt \in BOOLEAN :
            Request(1, shape, header, prompt)
    \/ \E k \in ReadNames, prompt \in BOOLEAN : ReadReturns(1, k, prompt)
    \/ \E k \in ReadNames, cause \in {TimedOut, NoData} : ReadFails(1, k, cause)
    \/ LateResult(1)
    \/ \E a \in Identity, prompt \in BOOLEAN : Retry(1, a, prompt)
    \/ Forget(1)

Spec == Init /\ [][Next]_vars

\* generatePaymentInstructions on its own: the prices it is called with, small
\* ones and ones beyond 2^53 and of a tenth of an RBTC (10^17 wei), and the
\* calls made.
MaxPrice == 60

MaxQuotes == 2

TenthRBTC == <<745058059, 92930048>>

PriceInputs == {Small(n) : n \in 0..MaxPrice} \cup {TwoTo53, BigOdd, TenthRBTC}

\* A call of generatePaymentInstructions(price): it returns an object literal
\* and touches nothing.
Quote ==
    \E price \in PriceInputs :
        /\ history.call.calls < MaxQuotes
        /\ history' = [history EXCEPT !.call =
                [function |-> "generatePaymentInstructions",
                 payer    |-> NoAddress,
                 balance  |-> Zero,
                 price    |-> price,
                 result   |-> generatePaymentInstructions(price),
                 calls    |-> history.call.calls + 1]]
        /\ UNCHANGED <<ledgerVars, lastTx, txCount, routes, requests, observed,
                       client, arrived>>

QuoteSpec == LedgerStart /\ [][Quote]_vars

\* paymentMiddleware on its own: the configurations it is built from and the
\* requests the gate it returns classifies.  The routes are written with the
\* method in upper or lower case, with the path in another letter case, under
\* another method and without a path; an entry may leave out accepts.
MaxEntries == 2

MaxLoads == 2

ConfigRoutes ==
    { Key(GET, PathData), Key(toLowerCase(GET), PathData), Key(POST, PathData),
      Key(GET, toUpperCase(PathData)), GET }

ConfigOptions ==
    { [accepts |-> <<"rootstock">>, description |-> "Protected data API"],
      [description |-> "Weather data API"] }

ConfigEntries == [route : ConfigRoutes, config : ConfigOptions]

\* Object.entries(routeConfig): the entries of an object, whose keys are
\* distinct strings, in the order they were written.
RouteConfigs ==
    UNION { { c \in [1..n -> ConfigEntries] :
                \A a, b \in 1..n : a # b => c[a].route # c[b].route } :
            n \in 0..MaxEntries }

ConfigShapes ==
    { Shape(GET, PathData), Shape(POST, PathData), Shape(HEAD, PathData),
      Shape(GET, toUpperCase(PathData)), Shape(GET, PathHealth) }

\* The server starts with the gate built from a configuration.
ConfigInit ==
    /\ \E config \in RouteConfigs :
        /\ routes = paymentMiddleware(config)
        /\ history = [CreatedHistory(Deployer, One) EXCEPT !.config = config]
    /\ requests = [i \in Slots |-> NoRequest]
    /\ observed = [i \in Slots |-> NotObserved]
    /\ client = [a \in Identity |-> NoQuote]
    /\ arrived = 0
    /\ paymentBalances = [a \in Identity |-> Zero]
    /\ contractBalance = Zero
    /\ funds = [a \in Identity |-> InitialFunds]
    /\ txCount = 0
    /\ deployed = TRUE
    /\ pricePerRequest = One
    /\ owner = Deployer
    /\ lastTx = Receipt("constructor", Deployer, NoAddress, One, "", <<>>)

\* The entries of the configuration are loaded once more into the table.
Reload ==
    /\ history.loads < MaxLoads
    /\ routes' = LoadRoutes(history.config, routes)
    /\ history' = [history EXCEPT !.loads = @ + 1]
    /\ UNCHANGED <<ledgerVars, lastTx, txCount, requests, observed, client, arrived>>

ConfigNext ==
    \/ Reload
    \/ \E shape \in ConfigShapes, header \in {AbsentHeader, MalformedHeader} :
            Request(1, shape, header, FALSE)

ConfigSpec == ConfigInit /\ [][ConfigNext]_vars

\* The server answering two requests of one account that overlap: the second
\* arrives while the reads of the first may be in flight (the middleware
\* returns at its first await and the event loop takes the next request).
ConcurrentRequest(i, a) ==
    /\ arrived < MaxSlots
    /\ \A j \in 1..(i - 1) : requests[j].header = AddressHeader(a)
    /\ Arrive(i, Shape(GET, PathData), AddressHeader(a), FALSE)

\* An account pays the price of one request.
PaysForOne ==
    \E sender \in Identity :
        txCount < MaxGateTx /\ pay(sender, pricePerRequest) /\ LedgerOnly

ConcurrentInit == Init /\ deployed

ConcurrentNext ==
    \/ PaysForOne
    \/ OwnerDeducts
    \/ \E i \in Slots, a \in Identity : ConcurrentRequest(i, a)
    \/ \E i \in Slots, k \in ReadNames : ReadReturns(i, k, FALSE)

ConcurrentSpec == ConcurrentInit /\ [][ConcurrentNext]_vars

\* The transport gives up on a read of request i that is still in flight.
ReadTimesOut(i) == \E k \in ReadNames : ReadFails(i, k, TimedOut)

\* The server with a transport that ends every read: a fetch that is not
\* answered is aborted when the timeout of the transport runs out.
FairSpec == Init /\ [][Next]_vars /\ WF_vars(ReadTimesOut(1))

(***************************************************************************)
(* The properties of the gate and of the ledger.                           *)
(***************************************************************************)
Done(i) == requests[i].pc = "done"

\* Request i went to a Restricted route and its verification succeeded: all
\* four reads returned.
Verified(i) ==
    /\ Done(i)
    /\ Restricted(requests[i])
    /\ AllResolved(requests[i].reads)

ReadValue(i, k) == requests[i].reads[k].value

\* The gate passed request i on: it wrote nothing and called next() once.
PassedOn(i) ==
    /\ requests[i].nextCalls = 1
    /\ requests[i].responses = 0
    /\ requests[i].gateStatus = 0
    /\ requests[i].body = NoBody

\* The gate answered request i itself with code and never called next().
AnsweredBy(i, code) ==
    /\ requests[i].gateStatus = code
    /\ requests[i].httpStatus = code
    /\ requests[i].responses = 1
    /\ requests[i].nextCalls = 0
    /\ requests[i].handler = "none"

\* s is the decimal numeral of the amount v: digits only, no leading zero.
IsDecimalOf(s, v) ==
    /\ Len(s) >= 1
    /\ \A n \in 1..Len(s) : s[n] \in 0..9
    /\ Len(s) > 1 => s[1] # 0
    /\ ParseDecimal(s) = v

\* C1: a request to a Restricted route whose four reads returned, hasPaid
\* returning false, is answered 402 by the gate and its handler never runs;
\* the body states payment.amount.value as the decimal numeral of the price
\* that was read, and a currentStatus with the identity of the header,
\* hasPaid = false and availableRequests = 0, whatever getAvailableRequests
\* returned.
C1_UnpaidAnswered402 ==
    \A i \in Slots :
        (Verified(i) /\ ReadValue(i, "hasPaid") = FALSE) =>
            /\ AnsweredBy(i, 402)
            /\ requests[i].body.status = 402
            /\ IsDecimalOf(requests[i].body.payment.amount.value,
                           ReadValue(i, "pricePerRequest"))
            /\ requests[i].body.currentStatus.walletAddress = requests[i].header
            /\ requests[i].body.currentStatus.hasPaid = FALSE
            /\ requests[i].body.currentStatus.availableRequests = Zero
            /\ requests[i].paymentInfo = Undefined

\* An unpaid answer although getAvailableRequests returned a count above zero
\* (a payment landed between the two reads).
C1_Witness ==
    \E i \in Slots :
        /\ Verified(i)
        /\ ReadValue(i, "hasPaid") = FALSE
        /\ Gt(ReadValue(i, "getAvailableRequests"), Zero)
        /\ requests[i].gateStatus = 402

\* C2 (as stated): a request to a Restricted route whose four reads returned,
\* hasPaid returning true, is passed on to its handler exactly once with no
\* response written by the gate, carrying the identity, the balance, the
\* available requests and the price exactly as they were read.
C2_AttachedExactlyAsRead ==
    \A i \in Slots :
        (Verified(i) /\ ReadValue(i, "hasPaid") = TRUE) =>
            /\ PassedOn(i)
            /\ requests[i].paymentInfo # Undefined
            /\ requests[i].paymentInfo.walletAddress = requests[i].header
            /\ IsDecimalOf(requests[i].paymentInfo.balance,
                           ReadValue(i, "getPaymentBalance"))
            /\ IsDecimalOf(requests[i].paymentInfo.pricePerRequest,
                           ReadValue(i, "pricePerRequest"))
            /\ requests[i].paymentInfo.availableRequests =
                    ReadValue(i, "getAvailableRequests")

\* C3 (as stated): the handler of a paid route runs for a request only if
\* the gate classified that request as Restricted and its verification
\* returned hasPaid = true.
C3_PaidHandlerOnlyAfterVerification ==
    \A i \in Slots :
        requests[i].handler \in PaidHandlers =>
            /\ Verified(i)
            /\ ReadValue(i, "hasPaid") = TRUE

\* C4: when a read of a request to a Restricted route fails, the request is
\* answered 500 with the cause of the failure as its message, never 402, and
\* its handler never runs; and a 402 is only ever written after the hasPaid
\* read returned, and returned false.
C4_ReadFailureAnswered500 ==
    \A i \in Slots :
        /\ (\E k \in ReadNames : requests[i].reads[k].status = "failed") =>
                /\ Restricted(requests[i])
                /\ AnsweredBy(i, 500)
                /\ requests[i].rejection \in {TimedOut, NoData}
                /\ requests[i].body = [error   |-> "Payment verification failed",
                                       message |-> requests[i].rejection]
                /\ requests[i].paymentInfo = Undefined
        /\ requests[i].gateStatus = 402 =>
                /\ requests[i].reads["hasPaid"].status = "ok"
                /\ ReadValue(i, "hasPaid") = FALSE

\* A read timed out for an account whose balance covered the price: the
\* answer is 500, the other reads being dropped or abandoned.
C4_Witness ==
    \E i \in Slots :
        /\ Done(i)
        /\ requests[i].reads["pricePerRequest"].status = "failed"
        /\ requests[i].rejection = TimedOut
        /\ observed[i].paidAtStart
        /\ requests[i].abandoned > 0
        /\ requests[i].gateStatus = 500

\* C5: a request to a Restricted route with no identity header, or an empty
\* one, is answered 400 "Missing wallet address"; verifyPayment is not
\* called, no read is issued and its handler never runs.
C5_MissingIdentityAnswered400 ==
    \A i \in Slots :
        (/\ requests[i].pc # "idle"
         /\ MapHas(routes, Key(requests[i].method, requests[i].path))
         /\ requests[i].header \in {AbsentHeader, EmptyHeader}) =>
            /\ AnsweredBy(i, 400)
            /\ requests[i].body = MissingWalletBody
            /\ requests[i].verifyCalls = 0
            /\ requests[i].reads = NotIssued
            /\ requests[i].abandoned = 0
            /\ requests[i].rejection = ""

\* An empty header on POST /api/ai/infer, the ledger holding a payment.
C5_Witness ==
    \E i \in Slots :
        /\ Done(i)
        /\ ShapeOf(requests[i]) = Shape(POST, PathInfer)
        /\ requests[i].header = EmptyHeader
        /\ requests[i].gateStatus = 400
        /\ \E a \in Identity : Gt(paymentBalances[a], Zero)

\* C6 (as stated): a request to a Restricted route whose identity header is
\* present but no well-formed address is answered 400, never 402, 500 or
\* passed on.
C6_MalformedIdentityAnswered400 ==
    \A i \in Slots :
        (/\ Done(i)
         /\ Restricted(requests[i])
         /\ requests[i].header = MalformedHeader) =>
            AnsweredBy(i, 400)

\* C7: a request whose method and path are the key of no route policy is
\* passed on at once, whatever its identity header holds and whether or not
\* the ledger is there: verifyPayment is not called, no read is issued and
\* the gate writes nothing.
C7_UnmatchedPassedOn ==
    \A i \in Slots :
        (/\ requests[i].pc # "idle"
         /\ ~MapHas(routes, Key(requests[i].method, requests[i].path))) =>
            /\ Done(i)
            /\ PassedOn(i)
            /\ requests[i].handler = Dispatch(requests[i].method, requests[i].path)
            /\ requests[i].routeMetadata = Undefined
            /\ requests[i].verifyCalls = 0
            /\ requests[i].reads = NotIssued
            /\ requests[i].abandoned = 0
            /\ requests[i].paymentInfo = Undefined

\* GET /health with a header that is no address, nothing being deployed at
\* the address of the contract.
C7_Witness ==
    \E i \in Slots :
        /\ Done(i)
        /\ ShapeOf(requests[i]) = Shape(GET, PathHealth)
        /\ requests[i].header = MalformedHeader
        /\ ~deployed
        /\ requests[i].handler = "health"

PaidRetry(i) ==
    /\ Verified(i)
    /\ observed[i].retry
    /\ ~observed[i].deducted

\* C9 (as stated): such a retry passes the gate, its handler runs and the
\* answer is HTTP 200.
C9_RetryAnswered200 ==
    \A i \in Slots :
        PaidRetry(i) =>
            /\ requests[i].nextCalls = 1
            /\ requests[i].handler \in PaidHandlers
            /\ requests[i].httpStatus = 200

\* C9 (amended): such a retry passes the gate: no 402 is written and the
\* handler of the route runs once with the payment information attached.
\* The answer is the handler's: HTTP 200, except that POST /api/ai/infer
\* answers 400 when the body of the request holds no prompt.
C9_RetryPassesGate ==
    \A i \in Slots :
        PaidRetry(i) =>
            /\ PassedOn(i)
            /\ requests[i].handler \in PaidHandlers
            /\ requests[i].paymentInfo # Undefined
            /\ requests[i].httpStatus =
                    IF requests[i].handler = "infer" /\ ~requests[i].prompt
                    THEN 400 ELSE 200

\* A retry of GET /api/data answered 200 after the payment of the quoted
\* amount, which is all the account holds in the ledger.
C9_Witness ==
    \E i \in Slots :
        /\ PaidRetry(i)
        /\ ShapeOf(requests[i]) = Shape(GET, PathData)
        /\ ReadValue(i, "getPaymentBalance") = client[requests[i].header.addr].amount
        /\ requests[i].httpStatus = 200

\* C10: in every state of the ledger the balance of every account is a
\* value at or above zero that did not wrap, whatever calls of pay,
\* deductPayment and withdraw were made, by whom, and whether they reverted.
C10_BalancesNeverNegative ==
    \A a \in Identity :
        /\ IsUint(paymentBalances[a])
        /\ Geq(MulSmall(InitialFunds, Cardinality(Identity)), paymentBalances[a])

\* The owner tried to deduct more than an account with a balance holds and
\* the call reverted, the balance staying what it was.
C10_Witness ==
    /\ lastTx.op = "deductPayment"
    /\ lastTx.sender = owner
    /\ lastTx.revert = "Insufficient balance"
    /\ Gt(paymentBalances[lastTx.payer], Zero)
    /\ Gt(lastTx.amount, paymentBalances[lastTx.payer])

(***************************************************************************)
(* The properties of the operations of the ledger.                         *)
(***************************************************************************)
\* This step sent the ledger a transaction calling op; its receipt is lastTx'.
Sent(op) == txCount' # txCount /\ lastTx'.op = op

\* This step changed the balance of no account but X.
OthersUnchanged(X) ==
    \A b \in Identity \ {X} : paymentBalances'[b] = paymentBalances[b]

\* C11: a pay by X of an amount a > 0 succeeds, adds exactly a to the
\* balance of X and to the value the ledger holds, changes no other balance
\* and emits one PaymentReceived(X, a, newBalance), newBalance being the
\* balance of X after the addition; and pays accumulate: the balance of an
\* account nothing was deducted from is the sum of the amounts it paid.
C11_PayAccumulates ==
    /\ [][(Sent("pay") /\ Gt(lastTx'.amount, Zero)) =>
            /\ lastTx'.revert = ""
            /\ paymentBalances'[lastTx'.sender] =
                    Add(paymentBalances[lastTx'.sender], lastTx'.amount)
            /\ contractBalance' = Add(contractBalance, lastTx'.amount)
            /\ OthersUnchanged(lastTx'.sender)
            /\ lastTx'.events =
                    << [name       |-> "PaymentReceived",
                        payer      |-> lastTx'.sender,
                        amount     |-> lastTx'.amount,
                        newBalance |-> paymentBalances'[lastTx'.sender]] >>]_vars
    /\ [](\A X \in Identity :
            history.deducted[X] = Zero => paymentBalances[X] = history.paid[X])

\* The second payment of an account nothing was deducted from: its balance
\* exceeds the amount it paid last.
C11_Witness ==
    /\ lastTx.op = "pay"
    /\ lastTx.revert = ""
    /\ history.deducted[lastTx.sender] = Zero
    /\ Gt(paymentBalances[lastTx.sender], lastTx.amount)
    /\ lastTx.events[1].newBalance = history.paid[lastTx.sender]

\* C12: a pay of the amount 0 reverts with "Payment amount must be greater
\* than zero" and leaves the whole ledger as it was: every balance, the value
\* held, and no PaymentReceived is emitted.
C12_ZeroPayReverts ==
    [][(Sent("pay") /\ lastTx'.amount = Zero) =>
            /\ lastTx'.revert = "Payment amount must be greater than zero"
            /\ lastTx'.events = <<>>
            /\ UNCHANGED ledgerVars]_vars

\* A pay of 0 reverted for an account that holds a balance.
C12_Witness ==
    /\ lastTx.op = "pay"
    /\ lastTx.amount = Zero
    /\ lastTx.revert # ""
    /\ Gt(paymentBalances[lastTx.sender], Zero)

\* C13: a deductPayment sent by an account that is not the owner reverts
\* with "Only owner can deduct payments" for every payer and amount, whether
\* or not the balance of the payer covers the amount, and changes no balance.
C13_NonOwnerDeductReverts ==
    [][(Sent("deductPayment") /\ lastTx'.sender # owner) =>
            /\ lastTx'.revert = "Only owner can deduct payments"
            /\ UNCHANGED ledgerVars]_vars

\* An account that is not the owner asked for more than the payer holds: the
\* revert names the owner check, not the balance.
C13_Witness ==
    /\ lastTx.op = "deductPayment"
    /\ lastTx.sender # owner
    /\ lastTx.revert = "Only owner can deduct payments"
    /\ Gt(lastTx.amount, paymentBalances[lastTx.payer])
    /\ Gt(paymentBalances[lastTx.payer], Zero)

\* C14: a deductPayment(X, a) sent by the owner with a above the balance of
\* X reverts with "Insufficient balance" and changes no balance.
C14_OverdrawReverts ==
    [][(/\ Sent("deductPayment")
        /\ lastTx'.sender = owner
        /\ Gt(lastTx'.amount, paymentBalances[lastTx'.payer])) =>
            /\ lastTx'.revert = "Insufficient balance"
            /\ UNCHANGED ledgerVars]_vars

\* The owner asked for one wei more than the payer holds.
C14_Witness ==
    /\ lastTx.op = "deductPayment"
    /\ lastTx.sender = owner
    /\ lastTx.revert = "Insufficient balance"
    /\ Gt(paymentBalances[lastTx.payer], Zero)
    /\ lastTx.amount = Add(paymentBalances[lastTx.payer], One)

\* C15: a deductPayment(X, a) sent by the owner with a at most the balance
\* of X (0 and the whole balance included) succeeds and takes exactly a off
\* the balance of X; no other balance and nothing else of the ledger, the
\* value it holds included, changes.
C15_DeductTakesExactly ==
    [][(/\ Sent("deductPayment")
        /\ lastTx'.sender = owner
        /\ Geq(paymentBalances[lastTx'.payer], lastTx'.amount)) =>
            /\ lastTx'.revert = ""
            /\ paymentBalances'[lastTx'.payer] =
                    Sub(paymentBalances[lastTx'.payer], lastTx'.amount)
            /\ OthersUnchanged(lastTx'.payer)
            /\ UNCHANGED <<deployed, pricePerRequest, owner, contractBalance, funds>>]_vars

\* The owner deducted the whole balance of an account: it is 0 and the
\* ledger still holds the value.
C15_Witness ==
    /\ lastTx.op = "deductPayment"
    /\ lastTx.revert = ""
    /\ Gt(lastTx.amount, Zero)
    /\ history.paid[lastTx.payer] = lastTx.amount
    /\ paymentBalances[lastTx.payer] = Zero
    /\ contractBalance = lastTx.amount

\* C16: in every state of a created ledger and for every account, hasPaid
\* is true exactly when the balance is at least pricePerRequest, which is
\* exactly when getAvailableRequests is at least 1.
C16_HasPaidIffAvailable ==
    deployed =>
        \A X \in Identity :
            /\ hasPaid(X) <=> Geq(paymentBalances[X], pricePerRequest)
            /\ Geq(paymentBalances[X], pricePerRequest) <=>
                    Geq(getAvailableRequests(X), One)

\* One account holds exactly the price and has paid, another holds one wei
\* less and has not.
C16_Witness ==
    \E X, Y \in Identity :
        /\ deployed
        /\ paymentBalances[X] = pricePerRequest
        /\ hasPaid(X)
        /\ Gt(paymentBalances[Y], Zero)
        /\ Add(paymentBalances[Y], One) = pricePerRequest
        /\ ~hasPaid(Y)

\* q is b / p rounded down: q * p <= b < (q + 1) * p, for a price p of one limb.
IsFloor(q, b, p) ==
    /\ IsUint(q)
    /\ Geq(b, MulSmall(q, p[2]))
    /\ Gt(MulSmall(Add(q, One), p[2]), b)

\* C17: getAvailableRequests returns the balance divided by the price,
\* rounded down, in every state of a created ledger and in every call made;
\* and a call of it changes nothing of the ledger and sends no transaction.
C17_AvailableIsFloor ==
    /\ [](deployed =>
            \A X \in Identity :
                IsFloor(getAvailableRequests(X), paymentBalances[X], pricePerRequest))
    /\ [](history.call.function = "getAvailableRequests" =>
                IsFloor(history.call.result, history.call.balance, history.call.price))
    /\ [][history'.call # history.call =>
                UNCHANGED <<ledgerVars, lastTx, txCount>>]_vars

\* A call returned 2 for a balance of two prices and a half (5 wei at 2 wei).
C17_Witness ==
    /\ history.call.function = "getAvailableRequests"
    /\ history.call.price = Two
    /\ history.call.balance = Small(5)
    /\ history.call.result = Two

\* C18: a creation with the price 0 reverts and no ledger exists after it;
\* a ledger that exists has a price above 0, so that getAvailableRequests
\* never divides by 0.
C18_PriceAboveZero ==
    /\ [](deployed => Gt(pricePerRequest, Zero))
    /\ [][(Sent("constructor") /\ lastTx'.amount = Zero) =>
            /\ lastTx'.revert = "Price must be greater than zero"
            /\ ~deployed'
            /\ UNCHANGED ledgerVars]_vars

\* A creation with the price 0 was refused and there is no ledger.
C18_Witness ==
    /\ lastTx.op = "constructor"
    /\ lastTx.amount = Zero
    /\ lastTx.revert # ""
    /\ ~deployed
    /\ history.creator = NoAddress

\* C19: the creation sets the owner to the creator and the price to its
\* argument; no step changes the owner or the price of a ledger that exists,
\* or ends it: at every moment they are those of the creation.
C19_PriceAndOwnerFixed ==
    /\ [][(Sent("constructor") /\ lastTx'.revert = "") =>
            /\ owner' = lastTx'.sender
            /\ pricePerRequest' = lastTx'.amount]_vars
    /\ [][deployed =>
            /\ deployed'
            /\ owner' = owner
            /\ pricePerRequest' = pricePerRequest]_vars
    /\ [](deployed => (owner = history.creator /\ pricePerRequest = history.price))

\* After a payment, a deduction and a withdrawal the ledger of the second
\* account still has its owner and its price.
C19_Witness ==
    /\ lastTx.op = "withdraw"
    /\ lastTx.revert = ""
    /\ \E X \in Identity : Gt(history.deducted[X], Zero)
    /\ history.creator = "a2"
    /\ owner = "a2"
    /\ pricePerRequest = Two

\* The owner sent withdraw while the ledger held a value above 0.
OwnerWithdraws ==
    /\ Sent("withdraw")
    /\ lastTx'.sender = owner
    /\ Gt(contractBalance, Zero)

\* This step moved all the ledger held to the owner and emitted one
\* FundsWithdrawn(owner, v), v being what it held.
Withdrawn ==
    /\ lastTx'.revert = ""
    /\ funds' = [funds EXCEPT ![owner] = Add(@, contractBalance)]
    /\ contractBalance' = Zero
    /\ Len(lastTx'.events) = 1
    /\ lastTx'.events[1].name = "FundsWithdrawn"
    /\ lastTx'.events[1].payer = owner
    /\ lastTx'.events[1].amount = contractBalance
    /\ UNCHANGED <<deployed, pricePerRequest, owner, paymentBalances>>

\* C20 (as stated): a withdraw sent by the owner while the ledger holds a
\* value v above 0 transfers exactly v to the owner, leaves the ledger
\* holding 0 and emits exactly one FundsWithdrawn(owner, v).
C20_OwnerWithdrawTransfersAll ==
    [][OwnerWithdraws => Withdrawn]_vars

\* C20 (amended): such a withdraw transfers exactly v to the owner, leaves
\* the ledger holding 0 and emits exactly one FundsWithdrawn(owner, v) when
\* the owner accepts the value; when the call that sends it fails (an owner
\* that is a contract refusing the value) the withdraw reverts with
\* "Withdrawal failed", nothing is emitted and the ledger is as it was.
C20_OwnerWithdrawTransfersOrReverts ==
    [][OwnerWithdraws =>
            \/ Withdrawn
            \/ /\ lastTx'.revert = "Withdrawal failed"
               /\ lastTx'.events = <<>>
               /\ UNCHANGED ledgerVars]_vars

\* The owner withdrew what two payments had brought in: the ledger holds 0
\* and the event states the sum.
C20_Witness ==
    /\ lastTx.op = "withdraw"
    /\ lastTx.revert = ""
    /\ contractBalance = Zero
    /\ \A X \in Identity : Gt(history.paid[X], Zero)
    /\ lastTx.events[1].amount = Add(history.paid["a1"], history.paid["a2"])

\* C21: a withdraw reverts, emits no FundsWithdrawn and leaves the value
\* held, the funds of every account and every balance unchanged when its
\* sender is not the owner ("Only owner can withdraw", whatever the ledger
\* holds) and when its sender is the owner and the ledger holds nothing
\* ("No funds to withdraw").
C21_WithdrawRefused ==
    [][(Sent("withdraw") /\ (lastTx'.sender # owner \/ contractBalance = Zero)) =>
            /\ lastTx'.revert = IF lastTx'.sender # owner
                                THEN "Only owner can withdraw"
                                ELSE "No funds to withdraw"
            /\ lastTx'.events = <<>>
            /\ UNCHANGED ledgerVars]_vars

\* An account that is not the owner sent withdraw to a ledger that holds
\* nothing: the revert names the owner check.
C21_Witness ==
    /\ lastTx.op = "withdraw"
    /\ lastTx.sender # owner
    /\ lastTx.revert = "Only owner can withdraw"
    /\ contractBalance = Zero
    /\ \E X \in Identity : Gt(paymentBalances[X], Zero)

\* C22: a pay step leaves the balance of its sender at or above what it was,
\* a deductPayment step leaves the balance of its payer at or below what it
\* was, each changing no other balance; and a step that is neither (a
\* withdraw, a creation, a call of a view, a step of the gate) or that
\* reverted changes no balance at all.
C22_BalanceMonotone ==
    [][/\ Sent("pay") =>
            /\ Geq(paymentBalances'[lastTx'.sender], paymentBalances[lastTx'.sender])
            /\ OthersUnchanged(lastTx'.sender)
       /\ Sent("deductPayment") =>
            /\ Geq(paymentBalances[lastTx'.payer], paymentBalances'[lastTx'.payer])
            /\ OthersUnchanged(lastTx'.payer)
       /\ (\/ ~(Sent("pay") \/ Sent("deductPayment"))
           \/ lastTx'.revert # "") =>
            UNCHANGED paymentBalances]_vars

\* The owner withdrew the value of a ledger in which an account keeps a
\* balance that a payment raised and a deduction lowered.
C22_Witness ==
    /\ lastTx.op = "withdraw"
    /\ lastTx.revert = ""
    /\ \E X \in Identity :
        /\ Gt(history.deducted[X], Zero)
        /\ Gt(paymentBalances[X], Zero)
        /\ paymentBalances[X] = Sub(history.paid[X], history.deducted[X])

\* C23: for an account that never paid, the views return without an error:
\* getPaymentBalance 0, hasPaid false and getAvailableRequests 0; and every
\* account has its entry in paymentBalances in every state: no operation
\* removes one.
C23_UnknownAccountReadsZero ==
    /\ [](deployed =>
            \A X \in Identity :
                history.paid[X] = Zero =>
                    /\ getPaymentBalance(X) = Zero
                    /\ hasPaid(X) = FALSE
                    /\ getAvailableRequests(X) = Zero)
    /\ [](DOMAIN paymentBalances = Identity)
    /\ [][DOMAIN paymentBalances' = DOMAIN paymentBalances]_vars

\* getAvailableRequests was called for an account that never paid and
\* returned 0, another account holding a balance.
C23_Witness ==
    /\ history.call.function = "getAvailableRequests"
    /\ history.paid[history.call.payer] = Zero
    /\ history.call.result = Zero
    /\ \E Y \in Identity : Gt(paymentBalances[Y], Zero)
    /\ Gt(contractBalance, Zero)

\* The number of requests an account pays for at once in the flow below.
MaxFlow == 2

\* C24: an account that paid k prices in all since the creation and had j
\* prices deducted has j <= k, getAvailableRequests = k - j and hasPaid
\* exactly when j < k; and a deduction of one price by the owner succeeds
\* exactly when the balance holds a price: with j = k it reverts with
\* "Insufficient balance".
C24_PayThenConsume ==
    /\ [](deployed =>
            \A X \in Identity, k \in 0..MaxFlow, j \in 0..MaxFlow :
                (/\ history.paid[X] = MulSmall(pricePerRequest, k)
                 /\ history.deducted[X] = MulSmall(pricePerRequest, j)) =>
                    /\ j <= k
                    /\ getAvailableRequests(X) = Small(k - j)
                    /\ hasPaid(X) <=> j < k)
    /\ [][\A k \in 0..MaxFlow, j \in 0..MaxFlow :
            (/\ Sent("deductPayment")
             /\ lastTx'.sender = owner
             /\ lastTx'.amount = pricePerRequest
             /\ history.paid[lastTx'.payer] = MulSmall(pricePerRequest, k)
             /\ history.deducted[lastTx'.payer] = MulSmall(pricePerRequest, j)) =>
                lastTx'.revert = IF j < k THEN "" ELSE "Insufficient balance"]_vars

\* An account paid one price, the owner deducted it, and the second
\* deduction of a price reverted.
C24_Witness ==
    /\ lastTx.op = "deductPayment"
    /\ lastTx.sender = owner
    /\ lastTx.amount = pricePerRequest
    /\ lastTx.revert = "Insufficient balance"
    /\ history.paid[lastTx.payer] = pricePerRequest
    /\ history.deducted[lastTx.payer] = pricePerRequest
    /\ getAvailableRequests(lastTx.payer) = Zero

\* The step in which read k of request i returns.
Returned(i, k) ==
    /\ requests[i].reads[k].status = "pending"
    /\ requests'[i].reads[k].status = "ok"

\* The step in which the last read of request i returns and verifyPayment
\* gives its result.
VerifyReturns(i) ==
    /\ requests[i].pc = "verifying"
    /\ requests'[i].pc = "done"
    /\ AllResolved(requests'[i].reads)

\* C26: the four reads are four calls, each returning what the ledger holds
\* when it runs and leaving what the others returned as it is, so the result
\* of one verification can join values of different ledger states: hasPaid
\* true with a balance below the price and availableRequests 0 (the witness).
C26_ReadsAreNotASnapshot ==
    [][\A i \in Slots, k \in ReadNames :
            Returned(i, k) =>
                /\ requests'[i].reads[k].value = readContract(k, requests[i].header.addr)
                /\ \A n \in ReadNames \ {k} :
                        requests'[i].reads[n] = requests[i].reads[n]]_vars

\* A verification returned hasPaid true, a balance below the price and no
\* available request: the price of a request was deducted between its reads.
C26_Witness ==
    \E i \in Slots :
        /\ Verified(i)
        /\ observed[i].moved
        /\ verifyPaymentResult(requests[i].reads).hasPaid
        /\ Gt(verifyPaymentResult(requests[i].reads).pricePerRequest,
              verifyPaymentResult(requests[i].reads).balance)
        /\ verifyPaymentResult(requests[i].reads).availableRequests = Zero
        /\ PassedOn(i)

\* C27: when no payment and no deduction commits between the first and the
\* last read of a verification, its result is what the ledger holds: the
\* balance of the account, the price, hasPaid exactly when the balance is at
\* least the price, and availableRequests the balance divided by the price,
\* rounded down.
C27_ResultIsProjection ==
    [][\A i \in Slots :
            (VerifyReturns(i) /\ ~observed[i].moved) =>
                LET v == verifyPaymentResult(requests'[i].reads)
                    X == requests[i].header.addr
                IN  /\ v.balance = paymentBalances[X]
                    /\ v.pricePerRequest = pricePerRequest
                    /\ v.hasPaid <=> Geq(paymentBalances[X], pricePerRequest)
                    /\ IsFloor(v.availableRequests, paymentBalances[X],
                               pricePerRequest)]_vars

\* C28: the gate acts on a result (402 or the handler of a Restricted route)
\* only when all four reads returned; the first read to fail ends the
\* verification in that step with its error, answered 500, whatever reads are
\* still in flight; and what comes back later changes nothing of the answer.
C28_FailFastAllOrNothing ==
    /\ [](\A i \in Slots :
            (/\ Restricted(requests[i])
             /\ requests[i].gateStatus = 402 \/ requests[i].nextCalls > 0) =>
                AllResolved(requests[i].reads))
    /\ [][\A i \in Slots, k \in ReadNames :
            (requests[i].reads[k].status = "pending"
                /\ requests'[i].reads[k].status = "failed") =>
                /\ requests'[i].pc = "done"
                /\ requests'[i].rejection \in ReadFailures
                /\ requests'[i].gateStatus = 500
                /\ requests'[i].body = VerificationFailedBody(requests'[i].rejection)
                /\ requests'[i].responses = 1
                /\ requests'[i].nextCalls = 0
                /\ requests'[i].abandoned =
                        Cardinality({n \in ReadNames \ {k} :
                                        requests[i].reads[n].status = "pending"})
                /\ \A n \in ReadNames : requests'[i].reads[n].status # "ok"]_vars
    /\ [][\A i \in Slots :
            (requests[i].pc = "done" /\ requests'[i].pc = "done") =>
                requests'[i] = [requests[i] EXCEPT !.abandoned = requests'[i].abandoned]]_vars

\* The first read of a request failed on a created ledger while the other
\* three were in flight: the request is answered 500 at once.
C28_Witness ==
    /\ deployed
    /\ AnsweredBy(1, 500)
    /\ requests[1].rejection = TimedOut
    /\ requests[1].abandoned = 3
    /\ Cardinality({k \in ReadNames : requests[1].reads[k].status = "dropped"}) = 3

\* C29: a request to a Restricted route with a malformed address issues no
\* read; one with a well-formed address calls verifyPayment once and issues
\* each of the four reads once: reads are issued only when the request
\* arrives, and none is issued again after a failure.
C29_ReadsIssuedOnce ==
    /\ [](\A i \in Slots :
            (requests[i].pc # "idle" /\ Restricted(requests[i])) =>
                /\ ~isAddress(requests[i].header) => requests[i].reads = NotIssued
                /\ isAddress(requests[i].header) =>
                        /\ requests[i].verifyCalls = 1
                        /\ \A k \in ReadNames : requests[i].reads[k].status # "none")
    /\ [][\A i \in Slots, k \in ReadNames :
            (requests'[i].reads[k].status = "pending"
                /\ requests[i].reads[k].status # "pending") =>
                /\ requests[i].pc = "idle"
                /\ requests[i].reads = NotIssued]_vars

\* A read of a request with a well-formed address failed after the three
\* others had returned; verifyPayment was called once and nothing is in
\* flight.
C29_Witness ==
    /\ Restricted(requests[1])
    /\ isAddress(requests[1].header)
    /\ requests[1].pc = "done"
    /\ requests[1].verifyCalls = 1
    /\ requests[1].gateStatus = 500
    /\ requests[1].abandoned = 0
    /\ \E k \in ReadNames : requests[1].reads[k].status = "failed"
    /\ deployed

\* C25: the gate neither reserves nor serializes: a step of the gate leaves
\* every balance as it is, also the step that lets a request through while
\* another request of the same account is in flight; so every verified
\* request of an account whose balance covered the price when it arrived, and
\* from which nothing was deducted during its verification, is let through,
\* however many requests of the account are let through with it.
C25_ConcurrentRequestsBothPass ==
    /\ [](\A i \in Slots :
            (Verified(i) /\ observed[i].paidAtStart /\ ~observed[i].deducted) =>
                /\ ReadValue(i, "hasPaid")
                /\ PassedOn(i)
                /\ requests[i].paymentInfo # Undefined)
    /\ [][requests' # requests => UNCHANGED <<paymentBalances, contractBalance>>]_vars

\* Two requests of one account whose balance pays for one request only were
\* in flight together, both read hasPaid true and both were let through; the
\* balance is what it was.
C25_Witness ==
    /\ requests[1].header = requests[2].header
    /\ Verified(1) /\ Verified(2)
    /\ observed[2].concurrent
    /\ ReadValue(1, "hasPaid") /\ ReadValue(2, "hasPaid")
    /\ PassedOn(1) /\ PassedOn(2)
    /\ Geq(paymentBalances[requests[1].header.addr], pricePerRequest)
    /\ Gt(MulSmall(pricePerRequest, 2), paymentBalances[requests[1].header.addr])
    /\ history.deducted[requests[1].header.addr] = Zero
    /\ ReadValue(1, "getPaymentBalance") = paymentBalances[requests[1].header.addr]
    /\ ReadValue(2, "getPaymentBalance") = paymentBalances[requests[1].header.addr]

RECURSIVE Total(_, _)
Total(f, S) ==
    IF S = {} THEN Zero
    ELSE LET a == CHOOSE x \in S : TRUE
         IN  Add(f[a], Total(f, S \ {a}))

C39_WithdrawKeepsBalances ==
    [][Sent("withdraw") =>
            /\ paymentBalances' = paymentBalances
            /\ pricePerRequest' = pricePerRequest
            /\ \A X \in Identity :
                /\ Geq(paymentBalances'[X], pricePerRequest')
                        <=> Geq(paymentBalances[X], pricePerRequest)
                /\ hasPaid(X) =>
                        /\ Geq(paymentBalances'[X], pricePerRequest')
                        /\ Div(paymentBalances'[X], pricePerRequest') =
                                getAvailableRequests(X)]_vars

\* The owner withdrew everything while an account that has paid keeps its
\* balance: the sum of the balances is above the value held.
C39_Witness ==
    /\ lastTx.op = "withdraw"
    /\ lastTx.revert = ""
    /\ contractBalance = Zero
    /\ \E X \in Identity :
        /\ hasPaid(X)
        /\ Gt(getAvailableRequests(X), Zero)
    /\ Gt(Total(paymentBalances, Identity), getContractBalance)

\* What the gate does with a request, as a function of the route table, of
\* the method, path and identity header of the request, and of what its own
\* reads returned (reads) or failed with (rejection).
GateOutcome(table, method, path, header, reads, rejection) ==
    LET passed(info) == [gateStatus |-> 0, body |-> NoBody, responses |-> 0,
                         nextCalls |-> 1, paymentInfo |-> info]
        answered(code, body) == [gateStatus |-> code, body |-> body, responses |-> 1,
                                 nextCalls |-> 0, paymentInfo |-> Undefined]
    IN  IF ~MapHas(table, Key(method, path)) THEN passed(Undefined)
        ELSE IF header.form \in {"absent", "empty"} THEN answered(400, MissingWalletBody)
        ELSE IF header.form # "address"
        THEN answered(500, VerificationFailedBody("Invalid wallet address format"))
        ELSE IF \E k \in ReadNames : reads[k].status = "failed"
        THEN answered(500, VerificationFailedBody(rejection))
        ELSE IF ~reads["hasPaid"].value
        THEN answered(402, PaymentRequiredBody(header, verifyPaymentResult(reads)))
        ELSE passed(PaymentInfo(header, verifyPaymentResult(reads)))

\* What the gate did with request i.
OutcomeOf(i) ==
    [gateStatus  |-> requests[i].gateStatus,
     body        |-> requests[i].body,
     responses   |-> requests[i].responses,
     nextCalls   |-> requests[i].nextCalls,
     paymentInfo |-> requests[i].paymentInfo]

C36_ExactlyOneOutcome ==
    /\ [](\A i \in Slots :
            /\ requests[i].pc = "verifying" =>
                    requests[i].responses = 0 /\ requests[i].nextCalls = 0
            /\ Done(i) =>
                    \/ /\ requests[i].responses = 1
                       /\ requests[i].nextCalls = 0
                       /\ requests[i].gateStatus \in {400, 402, 500}
                       /\ requests[i].handler = "none"
                    \/ /\ requests[i].responses = 0
                       /\ requests[i].nextCalls = 1
                       /\ requests[i].gateStatus = 0
                       /\ requests[i].handler # "none")
    /\ [][\A i \in Slots :
            (Done(i) /\ requests'[i].pc # "idle") =>
                /\ requests'[i].pc = "done"
                /\ requests'[i].responses = requests[i].responses
                /\ requests'[i].nextCalls = requests[i].nextCalls
                /\ requests'[i].gateStatus = requests[i].gateStatus
                /\ requests'[i].body = requests[i].body
                /\ requests'[i].handler = requests[i].handler]_vars

\* Nothing answers at the address of the contract: a read failed with no
\* data, the request was answered 500 once, and a read is still in flight.
C36_Witness ==
    /\ ~deployed
    /\ Done(1)
    /\ requests[1].rejection = NoData
    /\ requests[1].responses = 1
    /\ requests[1].nextCalls = 0
    /\ requests[1].gateStatus = 500
    /\ requests[1].abandoned = 1

PoliciesFor(config, method, path) ==
    {n \in 1..Len(config) :
        /\ toUpperCase(RouteParts(config[n].route).method) = method
        /\ RouteParts(config[n].route).path = path}

\* C31: a request is Restricted exactly when the configuration holds an
\* entry whose path is the path of the request letter for letter and whose
\* method, put in upper case, is the method of the request; the policy of
\* one method does not gate the path under another method, nor in another
\* letter case.
C31_RestrictedIffExactEntry ==
    \A i \in Slots :
        requests[i].pc # "idle" =>
            /\ Restricted(requests[i]) <=>
                    PoliciesFor(history.config, requests[i].method, requests[i].path) # {}
            /\ Restricted(requests[i]) <=>
                    \E n \in 1..Len(routes) :
                        /\ routes[n].value.method = requests[i].method
                        /\ routes[n].value.path = requests[i].path
            /\ Restricted(requests[i]) =>
                    /\ requests[i].routeMetadata.method = requests[i].method
                    /\ requests[i].routeMetadata.path = requests[i].path
            /\ ~Restricted(requests[i]) => PassedOn(i)

\* GET /api/data is Restricted under a configuration whose only entries are
\* written "get /api/data" and "POST /api/data".
C31_Witness ==
    /\ Done(1)
    /\ ShapeOf(requests[1]) = Shape(GET, PathData)
    /\ Restricted(requests[1])
    /\ AnsweredBy(1, 400)
    /\ Len(history.config) = 2
    /\ \A n \in 1..Len(history.config) :
            history.config[n].route \in {Key(toLowerCase(GET), PathData), Key(POST, PathData)}

\* C32: the table holds one policy for each key, the one of the last entry
\* of the configuration with that key, whatever entries with the key came
\* before it; every configuration loads.
C32_LastEntryWins ==
    /\ \A a, b \in 1..Len(routes) : routes[a].key = routes[b].key => a = b
    /\ \A n \in 1..Len(history.config) :
        LET key  == RouteKey(history.config[n].route)
            same == {m \in 1..Len(history.config) : RouteKey(history.config[m].route) = key}
            last == CHOOSE m \in same : \A o \in same : o <= m
        IN  /\ MapHas(routes, key)
            /\ MapGet(routes, key) = RoutePolicy(history.config[last].route,
                                                 history.config[last].config)
    /\ Len(routes) = Cardinality({RouteKey(history.config[n].route) :
                                    n \in 1..Len(history.config)})

\* "GET /api/data" and then "get /api/data" with another description and no
\* accepts: the table holds one policy, the second with the default accepts.
C32_Witness ==
    /\ Len(history.config) = 2
    /\ history.config[1].route = Key(GET, PathData)
    /\ history.config[2].route = Key(toLowerCase(GET), PathData)
    /\ history.config[1].config.description = "Protected data API"
    /\ history.config[2].config.description = "Weather data API"
    /\ Len(routes) = 1
    /\ routes[1].key = Key(GET, PathData)
    /\ routes[1].value.description = "Weather data API"
    /\ routes[1].value.accepts = <<"rootstock">>

====
